---- MODULE Spec2Model ----
(***************************************************************************)
(* Model of the developer-network visualization component                  *)
(* (AmirrezaAsadi/wordpress3d).                                            *)
(*                                                                         *)
(* Three component variants are modelled:                                  *)
(*   "fetch"      src/src/components/NetworkVisualization.tsx              *)
(*   "fsState"    src/src/network-viz-directed.tsx lines 1-267             *)
(*   "fetchState" src/src/network-viz-directed.tsx lines 268-571           *)
(*                                                                         *)
(* Numbers produced by the d3 linear scale are rationals <<n, d>> with     *)
(* d > 0; <<0, 0>> stands for NaN (and for undefined once coerced by +x).  *)
(* Floating-point rounding is not modelled.                                *)
(***************************************************************************)
EXTENDS Integers, Sequences, FiniteSets, TLC

(* ------------------------------ bounds -------------------------------- *)
MaxLen == 2        \* longest betweenness / weight column drawn in SpecScale
MaxBetween == 10   \* largest betweenness value drawn in SpecScale
MaxWeight == 5     \* largest edge weight drawn in SpecScale
MaxCoord == 1      \* node and pointer coordinates range over 0..MaxCoord
MaxGestures == 2   \* drag gestures (pointers) that can be active at once
AlphaInit == 2     \* cooling ticks from a fresh simulation down to alphaMin
MaxMounts == 2     \* component instances mounted one after another
MaxZoomReq == 90   \* largest scale a zoom gesture asks for, in 1/20 units
MaxCsvLen == 4     \* longest CSV body (characters after the header line)
MaxRows == 3       \* most node rows in a table whose links are resolved
MaxEdges == 2      \* most edge rows in a table whose links are resolved

Variants == {"fetch", "fsState", "fetchState"}

VARIABLES
  variant,       \* which component variant is running
  column,        \* SpecScale: betweenness of each node row
  weights,       \* SpecScale: weight of each edge row
  scalesMade,    \* SpecScale: the two d3.scaleLinear objects exist
  radius,        \* SpecScale: 'r' attribute of each node circle
  strokeWidth,   \* SpecScale: 'stroke-width' attribute of each link path
  markerEnd,     \* SpecScale: arrow size named by each link's 'marker-end'
  ids,           \* SpecLayout: developer_id of each node row
  links,         \* SpecLayout: resolved <<source, target>> node of each link
  x, y,          \* SpecLayout: current position of each node
  fx, fy,        \* SpecLayout: fixed position of each node
  gesture,       \* SpecLayout: node held by each drag gesture, 0 when idle
  alpha,         \* SpecLayout: energy level of the simulation
  alphaTarget,   \* SpecLayout: energy level the simulation decays toward
  running,       \* SpecLayout: the simulation's timer is scheduled
  path,          \* SpecLayout: 'd' attribute of each link path
  dataset,       \* Spec: index of the tables the two resources hold
  nodeOutcome,   \* Spec: how the node resource answers a request
  edgeOutcome,   \* Spec: how the edge resource answers a request
  comp,          \* Spec: state of each component instance
  batched,       \* Spec: state updates made after an await share one render
  zoomT,         \* SpecZoom: the svg's current zoom transform
  containerT,    \* SpecZoom: 'transform' attribute of the container group
  zoomReq,       \* SpecZoom: scale asked for by the latest zoom gesture
  countries,     \* SpecFlag: country of each node row
  href,          \* SpecFlag: flag image code of each node, or a thrown error
  csvText,       \* SpecCsv: characters of a CSV file after its header line
  records,       \* SpecCsv: rows returned by parseCSV
  rawLinks       \* SpecResolve: the edge rows as parsed, endpoints are ids

varsScale == <<column, weights, scalesMade, radius, strokeWidth, markerEnd>>

varsLayout == <<ids, links, x, y, fx, fy, gesture, alpha, alphaTarget,
                running, path>>

varsLife == <<dataset, nodeOutcome, edgeOutcome, comp, batched>>

varsZoom == <<zoomT, containerT, zoomReq>>

varsFlag == <<countries, href>>

varsCsv == <<csvText, records>>

varsResolve == <<rawLinks>>

varsMore == <<varsZoom, varsFlag, varsCsv, varsResolve>>

vars == <<variant, column, weights, scalesMade, radius, strokeWidth,
          markerEnd, ids, links, x, y, fx, fy, gesture, alpha, alphaTarget,
          running, path, dataset, nodeOutcome, edgeOutcome, comp, batched,
          zoomT, containerT, zoomReq, countries, href, csvText, records,
          rawLinks>>

\* values of the variables a specification does not use
IdleScale ==
  /\ column = << >> /\ weights = << >> /\ scalesMade = FALSE
  /\ radius = << >> /\ strokeWidth = << >> /\ markerEnd = << >>

IdleLayout ==
  /\ ids = << >> /\ links = << >>
  /\ x = << >> /\ y = << >> /\ fx = << >> /\ fy = << >>
  /\ gesture = << >> /\ path = << >>
  /\ alpha = 0 /\ alphaTarget = 0 /\ running = FALSE

IdleLife ==
  /\ nodeOutcome = "ok" /\ edgeOutcome = "ok" /\ comp = << >>
  /\ batched = TRUE

IdleZoom == zoomT = << >> /\ containerT = << >> /\ zoomReq = 0

IdleFlag == countries = << >> /\ href = << >>

IdleCsv == csvText = << >> /\ records = [done |-> FALSE, rows |-> << >>]

IdleResolve == rawLinks = << >>

IdleMore == IdleZoom /\ IdleFlag /\ IdleCsv /\ IdleResolve

(* ------------------------- numbers and scales -------------------------- *)
NaN == <<0, 0>>
Num(n) == <<n, 1>>
IsNaN(q) == q[2] = 0

\* q1 <= q2 on rationals with positive denominators
RatLeq(q1, q2) == q1[1] * q2[2] <= q2[1] * q1[2]
RatEq(q1, q2) == q1[1] * q2[2] = q2[1] * q1[2]

RECURSIVE SeqMax(_)
SeqMax(s) ==
  IF Len(s) = 1 THEN s[1]
  ELSE LET m == SeqMax(Tail(s)) IN IF s[1] > m THEN s[1] ELSE m

\* d3.max(rows, accessor): undefined (here NaN) for an empty column
D3Max(s) == IF s = << >> THEN NaN ELSE Num(SeqMax(s))

\* JavaScript  x || k  for a number x: NaN, undefined and 0 are falsy
OrElse(q, k) == IF IsNaN(q) \/ q[1] = 0 THEN Num(k) ELSE q

\* domain([lo, hi]) of the two scales, per variant
BetweennessDomainMax(v, col) ==
  IF v = "fsState" THEN D3Max(col) ELSE OrElse(D3Max(col), 0)

WeightDomainMax(v, wts) ==
  IF v = "fsState" THEN D3Max(wts) ELSE OrElse(D3Max(wts), 1)

\* ScaleLinear with the domain offset forgotten: t = value / (d1 - d0)
ScaleLinearNoOffset(d0, d1, r0, r1, val) ==
  IF IsNaN(d1) THEN NaN
  ELSE LET m == d1[1] IN
    IF m < d0
      THEN <<r1 * ((d0 - m) - val) + r0 * val, d0 - m>>
    ELSE IF m = d0
      THEN <<r0 + r1, 2>>
    ELSE <<r0 * ((m - d0) - val) + r1 * val, m - d0>>

\* d3.scaleLinear().domain([d0, d1]).range([r0, r1]) applied to a value
\* (d3-scale continuous.js: bimap / normalize / interpolateNumber, no clamp)
ScaleLinear(d0, d1, r0, r1, val) ==
  IF IsNaN(d1) THEN NaN
  ELSE LET m == d1[1] IN
    IF m < d0
      THEN <<r1 * ((d0 - m) - (val - m)) + r0 * (val - m), d0 - m>>
    ELSE IF m = d0
      THEN <<r0 + r1, 2>>
    ELSE <<r0 * ((m - d0) - (val - d0)) + r1 * (val - d0), m - d0>>

BetweennessScale(v, col, val) ==
  ScaleLinear(0, BetweennessDomainMax(v, col), 8, 25, val)

EdgeWeightScale(v, wts, val) ==
  ScaleLinear(1, WeightDomainMax(v, wts), 1, 4, val)

\* MarkerSize with strict comparisons at the bucket boundaries
MarkerSizeStrict(w) ==
  IF w < 2 THEN "small" ELSE IF w < 4 THEN "medium" ELSE "large"

\* marker-end: d.weight <= 2 ? 'small' : d.weight <= 4 ? 'medium' : 'large'
MarkerSize(w) ==
  IF w <= 2 THEN "small" ELSE IF w <= 4 THEN "medium" ELSE "large"

(* ------------------------------ SpecScale ------------------------------ *)
(* The scale and marker steps of the visualization build, applied to       *)
(* arbitrary small columns.                                                *)

RECURSIVE SeqsUpTo(_, _)
SeqsUpTo(S, n) ==
  IF n = 0 THEN {<< >>}
  ELSE LET shorter == SeqsUpTo(S, n - 1) IN
    shorter \cup {Append(s, e) : s \in {t \in shorter : Len(t) = n - 1}, e \in S}

InitScale ==
  /\ variant \in Variants
  /\ column \in SeqsUpTo(0..MaxBetween, MaxLen)
  /\ weights \in SeqsUpTo(0..MaxWeight, MaxLen)
  /\ scalesMade = FALSE
  /\ radius = << >>
  /\ strokeWidth = << >>
  /\ markerEnd = << >>
  /\ ids = << >> /\ links = << >>
  /\ x = << >> /\ y = << >> /\ fx = << >> /\ fy = << >>
  /\ gesture = << >> /\ path = << >>
  /\ alpha = 0 /\ alphaTarget = 0 /\ running = FALSE
  /\ dataset = 0 /\ nodeOutcome = "ok" /\ edgeOutcome = "ok" /\ comp = << >>
  /\ batched = TRUE
  /\ IdleMore

CreateScales ==
  /\ ~scalesMade
  /\ scalesMade' = TRUE
  /\ UNCHANGED <<variant, column, weights, radius, strokeWidth, markerEnd>>
  /\ UNCHANGED varsLayout
  /\ UNCHANGED varsMore
  /\ UNCHANGED varsLife

DrawLinks ==
  /\ scalesMade
  /\ strokeWidth = << >>
  /\ weights # << >>
  /\ strokeWidth' = [i \in 1..Len(weights) |->
                       EdgeWeightScale(variant, weights, weights[i])]
  /\ markerEnd' = [i \in 1..Len(weights) |-> MarkerSize(weights[i])]
  /\ UNCHANGED <<variant, column, weights, scalesMade, radius>>
  /\ UNCHANGED varsLayout
  /\ UNCHANGED varsMore
  /\ UNCHANGED varsLife

DrawNodes ==
  /\ scalesMade
  /\ radius = << >>
  /\ column # << >>
  /\ radius' = [i \in 1..Len(column) |->
                  BetweennessScale(variant, column, column[i])]
  /\ UNCHANGED <<variant, column, weights, scalesMade, strokeWidth, markerEnd>>
  /\ UNCHANGED varsLayout
  /\ UNCHANGED varsMore
  /\ UNCHANGED varsLife

NextScale == CreateScales \/ DrawLinks \/ DrawNodes

SpecScale == InitScale /\ [][NextScale]_vars

(* --------------------------- claims: scales ---------------------------- *)
IsValue(q, k) == ~IsNaN(q) /\ q[1] = k * q[2]

AllZero(s) == \A i \in 1..Len(s) : s[i] = 0

\* C7: when the scale's input domain is degenerate (all betweenness 0 for
\* the radius scale, maximum weight 1 for the width scale) every drawn
\* radius is outMin = 8 and every drawn stroke width is outMin = 1.
C7_DegenerateReturnsOutMin ==
  /\ (radius # << >> /\ AllZero(column)) =>
        \A i \in 1..Len(radius) : IsValue(radius[i], 8)
  /\ (strokeWidth # << >> /\ SeqMax(weights) = 1) =>
        \A i \in 1..Len(strokeWidth) : IsValue(strokeWidth[i], 1)

\* C8: for a non-degenerate domain the radius scale maps betweenness 0 to
\* exactly 8 and the maximum betweenness to exactly 25, the width scale maps
\* weight 1 to exactly 1 and the maximum weight to exactly 4, and both are
\* monotonic non-decreasing over [inMin, inMax].
C8_EndpointsExactAndMonotonic ==
  /\ (radius # << >> /\ ~AllZero(column)) =>
        \A i \in 1..Len(column) :
          /\ ~IsNaN(radius[i])
          /\ column[i] = 0 => IsValue(radius[i], 8)
          /\ column[i] = SeqMax(column) => IsValue(radius[i], 25)
          /\ \A j \in 1..Len(column) :
                column[i] <= column[j] => RatLeq(radius[i], radius[j])
  /\ (strokeWidth # << >> /\ WeightDomainMax(variant, weights) # Num(1)) =>
        \A i \in 1..Len(weights) :
          /\ ~IsNaN(strokeWidth[i])
          /\ weights[i] = 1 => IsValue(strokeWidth[i], 1)
          /\ weights[i] = SeqMax(weights) => IsValue(strokeWidth[i], 4)
          /\ \A j \in 1..Len(weights) :
                (1 <= weights[i] /\ weights[i] <= weights[j]) =>
                  RatLeq(strokeWidth[i], strokeWidth[j])

\* C8 witness: betweenness 0 and 10 drawn as radii 8 and 25, weights 1 and 4
\* drawn as widths 1 and 4.
C8_Witness ==
  /\ column = <<0, 10>> /\ radius # << >>
  /\ IsValue(radius[1], 8) /\ IsValue(radius[2], 25)
  /\ weights = <<1, 4>> /\ strokeWidth # << >>
  /\ IsValue(strokeWidth[1], 1) /\ IsValue(strokeWidth[2], 4)

\* C9: the arrowhead of every edge depends on its weight alone: weight <= 2
\* is 'small', 2 < weight <= 4 is 'medium', weight > 4 is 'large'.
C9_MarkerBuckets ==
  markerEnd # << >> =>
    \A i \in 1..Len(weights) :
      /\ weights[i] <= 2 => markerEnd[i] = "small"
      /\ (2 < weights[i] /\ weights[i] <= 4) => markerEnd[i] = "medium"
      /\ weights[i] > 4 => markerEnd[i] = "large"

\* C9 witness: the boundary weights 2 and 4 have been given their markers.
C9_Witness ==
  weights = <<2, 4>> /\ markerEnd = <<"small", "medium">>

(* ------------------------------ datasets ------------------------------- *)
Edge(s, t, w) == [source |-> s, target |-> t, weight |-> w]

\* parsed node and edge tables: plain, duplicate ids, edge to an absent id,
\* empty
Datasets == <<
  [ids |-> <<"a", "b">>, between |-> <<0, 10>>,
   edges |-> <<Edge("a", "b", 1), Edge("b", "b", 5)>>],
  [ids |-> <<"a", "a">>, between |-> <<2, 4>>,
   edges |-> <<Edge("a", "a", 3)>>],
  [ids |-> <<"a", "b">>, between |-> <<0, 0>>,
   edges |-> <<Edge("a", "z", 2)>>],
  [ids |-> << >>, between |-> << >>, edges |-> << >>] >>

EdgeWeights(ds) == [k \in 1..Len(ds.edges) |-> ds.edges[k].weight]

\* id lookup in which the first row carrying an id wins
NodeByIdFirst(idseq, id) ==
  LET hits == {i \in 1..Len(idseq) : idseq[i] = id} IN
  IF hits = {} THEN 0 ELSE CHOOSE i \in hits : \A j \in hits : i <= j

\* forceLink id lookup (d3-force link.js, nodeById Map): the last row
\* carrying an id wins; 0 when no row carries it
NodeById(idseq, id) ==
  LET hits == {i \in 1..Len(idseq) : idseq[i] = id} IN
  IF hits = {} THEN 0 ELSE CHOOSE i \in hits : \A j \in hits : j <= i

\* forceLink initialize: every link's source and target replaced by a node
ResolveLinks(ds) ==
  [k \in 1..Len(ds.edges) |->
     <<NodeById(ds.ids, ds.edges[k].source),
       NodeById(ds.ids, ds.edges[k].target)>>]

\* find() throws "node not found" unless every endpoint resolves
LinksResolve(ds) ==
  \A k \in 1..Len(ds.edges) :
    ResolveLinks(ds)[k][1] # 0 /\ ResolveLinks(ds)[k][2] # 0

NodeRadii(v, col) ==
  [i \in 1..Len(col) |-> BetweennessScale(v, col, col[i])]

LinkWidths(v, wts) ==
  [i \in 1..Len(wts) |-> EdgeWeightScale(v, wts, wts[i])]

LinkMarkers(wts) == [i \in 1..Len(wts) |-> MarkerSize(wts[i])]

(* ------------------------------ SpecLayout ----------------------------- *)
(* A built visualization: simulation ticks and drag gestures.  Positions   *)
(* are abstracted to a small grid; a tick may move every free node         *)
(* anywhere.  A distance sqrt(q) * 2 is recorded by its square 4 * q.      *)

Coord == 0..MaxCoord
Undefined == -2     \* fx / fy never assigned
Null == -1          \* fx / fy assigned null
AlphaHot == 1       \* level of alphaTarget(0.3): above alphaMin
Nodes == 1..Len(ids)
Gestures == 1..MaxGestures

NoPath == [kind |-> "none"]

\* tick callback with the self-loop branch missing
LinkPathArcOnly(v, idseq, col, s, t, nx, ny) ==
  LET dx == nx[t] - nx[s]
      dy == ny[t] - ny[s]
  IN [kind |-> "arc", x1 |-> nx[s], y1 |-> ny[s],
      drSq |-> 4 * (dx * dx + dy * dy), x2 |-> nx[t], y2 |-> ny[t]]

\* tick callback: the 'd' attribute of the link from node s to node t
LinkPath(v, idseq, col, s, t, nx, ny) ==
  LET dx == nx[t] - nx[s]
      dy == ny[t] - ny[s]
      r == BetweennessScale(v, col, col[s])
  IN IF idseq[s] = idseq[t]
       THEN [kind |-> "loop",
             mx |-> <<nx[s] * r[2] - r[1], r[2]>>, my |-> ny[s],
             r |-> r,
             a1 |-> <<2 * r[1], r[2]>>, a2 |-> <<-(2 * r[1]), r[2]>>]
       ELSE [kind |-> "arc", x1 |-> nx[s], y1 |-> ny[s],
             drSq |-> 4 * (dx * dx + dy * dy), x2 |-> nx[t], y2 |-> ny[t]]

\* simulation.tick(): alpha += (alphaTarget - alpha) * alphaDecay
StepAlpha(a, target) ==
  IF a < target THEN a + 1 ELSE IF a > target THEN a - 1 ELSE a

\* an `active` counter that always reads 0
ActiveIgnored(g) == 0

\* number of active gestures (d3-drag's `active` counter)
Active(g) == Cardinality({k \in DOMAIN g : g[k] # 0})

\* dragended that leaves the node pinned
DragendedKeepFixed(f, n) == f

\* dragended: d.fx = null; d.fy = null
DragendedFixed(f, n) == [f EXCEPT ![n] = Null]

InitLayout ==
  /\ variant \in Variants
  /\ \E d \in 1..Len(Datasets) :
       /\ LinksResolve(Datasets[d])
       /\ ids = Datasets[d].ids
       /\ column = Datasets[d].between
       /\ weights = EdgeWeights(Datasets[d])
       /\ links = ResolveLinks(Datasets[d])
  /\ scalesMade = TRUE
  /\ radius = NodeRadii(variant, column)
  /\ strokeWidth = LinkWidths(variant, weights)
  /\ markerEnd = LinkMarkers(weights)
  /\ x \in [Nodes -> Coord]
  /\ y \in [Nodes -> Coord]
  /\ fx = [i \in Nodes |-> Undefined]
  /\ fy = [i \in Nodes |-> Undefined]
  /\ gesture = [g \in Gestures |-> 0]
  /\ alpha = AlphaInit
  /\ alphaTarget = 0
  /\ running = TRUE
  /\ path = [k \in 1..Len(links) |-> NoPath]
  /\ dataset = 0 /\ nodeOutcome = "ok" /\ edgeOutcome = "ok" /\ comp = << >>
  /\ batched = TRUE
  /\ IdleMore

\* one step of the simulation timer: tick(), the 'tick' listener, stop test
Tick ==
  /\ running
  /\ alpha' = StepAlpha(alpha, alphaTarget)
  /\ \E nx \in [Nodes -> Coord], ny \in [Nodes -> Coord] :
       /\ \A i \in Nodes : fx[i] >= 0 => nx[i] = fx[i]
       /\ \A i \in Nodes : fy[i] >= 0 => ny[i] = fy[i]
       /\ x' = nx
       /\ y' = ny
       /\ path' = [k \in 1..Len(links) |->
                     LinkPath(variant, ids, column,
                              links[k][1], links[k][2], nx, ny)]
  /\ running' = (alpha' >= 1)
  /\ UNCHANGED <<variant, ids, links, fx, fy, gesture, alphaTarget>>
  /\ UNCHANGED varsScale
  /\ UNCHANGED varsLife
  /\ UNCHANGED varsMore

Dragstarted(g, n) ==
  /\ gesture[g] = 0
  /\ gesture' = [gesture EXCEPT ![g] = n]
  /\ IF Active(gesture) = 0
       THEN alphaTarget' = AlphaHot /\ running' = TRUE
       ELSE UNCHANGED <<alphaTarget, running>>
  /\ fx' = [fx EXCEPT ![n] = x[n]]
  /\ fy' = [fy EXCEPT ![n] = y[n]]
  /\ UNCHANGED <<variant, ids, links, x, y, alpha, path>>
  /\ UNCHANGED varsScale
  /\ UNCHANGED varsLife
  /\ UNCHANGED varsMore

Dragged(g, px, py) ==
  /\ gesture[g] # 0
  /\ fx' = [fx EXCEPT ![gesture[g]] = px]
  /\ fy' = [fy EXCEPT ![gesture[g]] = py]
  /\ UNCHANGED <<variant, ids, links, x, y, gesture, alpha, alphaTarget,
                 running, path>>
  /\ UNCHANGED varsScale
  /\ UNCHANGED varsLife
  /\ UNCHANGED varsMore

Dragended(g) ==
  /\ gesture[g] # 0
  /\ gesture' = [gesture EXCEPT ![g] = 0]
  /\ IF Active(gesture') = 0
       THEN alphaTarget' = 0
       ELSE UNCHANGED alphaTarget
  /\ fx' = DragendedFixed(fx, gesture[g])
  /\ fy' = DragendedFixed(fy, gesture[g])
  /\ UNCHANGED <<variant, ids, links, x, y, alpha, running, path>>
  /\ UNCHANGED varsScale
  /\ UNCHANGED varsLife
  /\ UNCHANGED varsMore

NextLayout ==
  \/ Tick
  \/ \E g \in Gestures, n \in Nodes : Dragstarted(g, n)
  \/ \E g \in Gestures, px \in Coord, py \in Coord : Dragged(g, px, py)
  \/ \E g \in Gestures : Dragended(g)

SpecLayout == InitLayout /\ [][NextLayout]_vars

(* ------------------------------ SpecEnergy ----------------------------- *)
(* The layout's energy under drag-starts, drag-ends and ticks.  Neither    *)
(* alpha, alphaTarget, the timer nor d3-drag's counter depends on where    *)
(* the nodes are, so the nodes start at the origin, the pointer is not     *)
(* moved and the ticks are those that leave every node where it is.        *)

InitEnergy ==
  /\ InitLayout
  /\ \A i \in Nodes : x[i] = 0 /\ y[i] = 0

TickAtRest == Tick /\ x' = x /\ y' = y

NextEnergy ==
  \/ TickAtRest
  \/ \E g \in Gestures, n \in Nodes : Dragstarted(g, n)
  \/ \E g \in Gestures : Dragended(g)

\* the simulation's timer fires for as long as it is scheduled
SpecEnergy == InitEnergy /\ [][NextEnergy]_vars /\ WF_vars(TickAtRest)

(* --------------------------- claims: layout ---------------------------- *)
Held(n) == \E g \in Gestures : gesture[g] = n
Fixed(n) == fx[n] >= 0 /\ fy[n] >= 0

\* C1 (as stated): for every node and every interleaving of drag-start,
\* drag-move, drag-end and tick events, overlapping gestures included, the
\* node's fx/fy is set exactly while a drag gesture on that node is in
\* progress.
C1_FixedExactlyWhileDragged ==
  \A n \in Nodes : Fixed(n) <=> Held(n)

\* C1 (amended): fx/fy is set only while a drag gesture on that node is in
\* progress; it is undefined before any drag, becomes the node's position at
\* drag-start and the pointer location at drag-move, becomes null at every
\* drag-end on that node, and no tick changes it.
C1_FixedOnlyWhileDragged ==
  /\ [](\A n \in Nodes : (fx[n] >= 0 \/ fy[n] >= 0) => (Fixed(n) /\ Held(n)))
  /\ [][\A n \in Nodes :
          /\ (\E g \in Gestures : gesture[g] = 0 /\ gesture'[g] = n) =>
               (fx'[n] = x[n] /\ fy'[n] = y[n])
          /\ (\E g \in Gestures : gesture[g] = n /\ gesture'[g] = 0) =>
               (fx'[n] = Null /\ fy'[n] = Null)
          /\ (gesture' = gesture /\ (fx'[n] # fx[n] \/ fy'[n] # fy[n])) =>
               (Held(n) /\ fx'[n] \in Coord /\ fy'[n] \in Coord
                  /\ x' = x /\ y' = y)
          /\ (~Held(n) /\ gesture' = gesture) =>
               (fx'[n] = fx[n] /\ fy'[n] = fy[n])
       ]_vars

\* C1 witness: a node that was dragged and released (fx/fy null, no gesture
\* on it) while the simulation is still ticking.
C1_Witness ==
  \E n \in Nodes : fx[n] = Null /\ fy[n] = Null /\ ~Held(n) /\ running

\* C10: after every tick, a link whose resolved source and target are the
\* same node is drawn as the closed two-arc loop of that node's radius
\* anchored at the node's position, and a link between two different nodes
\* is drawn as the arc from source to target with radius twice their
\* Euclidean distance.
C10_SelfLoopOrArc ==
  \A k \in 1..Len(links) :
    LET s == links[k][1]
        t == links[k][2]
        p == path[k]
    IN /\ alpha < AlphaInit => p.kind # "none"
       /\ (p.kind # "none" /\ s = t) =>
            /\ p.kind = "loop"
            /\ p.r = radius[s]
            /\ p.my = y[s]
            /\ p.mx[2] = p.r[2] /\ p.mx[1] + p.r[1] = x[s] * p.r[2]
            /\ p.a1 = <<2 * p.r[1], p.r[2]>>
            /\ p.a1[2] = p.a2[2] /\ p.a1[1] + p.a2[1] = 0
       /\ (p.kind # "none" /\ s # t) =>
            /\ p.kind = "arc"
            /\ p.x1 = x[s] /\ p.y1 = y[s] /\ p.x2 = x[t] /\ p.y2 = y[t]
            /\ p.drSq = 4 * ((x[t] - x[s]) * (x[t] - x[s])
                             + (y[t] - y[s]) * (y[t] - y[s]))

\* C10 witness: after a tick one link is drawn as a loop and another as an
\* arc between two nodes at different positions.
C10_Witness ==
  \E k1, k2 \in 1..Len(links) :
    /\ links[k1][1] = links[k1][2] /\ path[k1].kind = "loop"
    /\ links[k2][1] # links[k2][2] /\ path[k2].kind = "arc"
    /\ path[k2].drSq > 0

Dragging == \E g \in Gestures : gesture[g] # 0

\* C15: for every interleaving of drag-starts and drag-ends of simultaneous
\* gestures the energy target is raised, and the simulation running, exactly
\* while at least one gesture is in progress and is 0 whenever none is; once
\* no gesture is in progress the layout eventually stops ticking unless a
\* new drag starts.
C15_HotExactlyWhileDragging ==
  /\ [](alphaTarget = IF Dragging THEN AlphaHot ELSE 0)
  /\ [](Dragging => running)
  /\ (~Dragging) ~> (~running \/ Dragging)

\* C15 witness: of two overlapping gestures one has ended and released its
\* node while the other still holds the energy target up.
C15_Witness ==
  /\ \E g \in Gestures : gesture[g] # 0
  /\ \E g \in Gestures : gesture[g] = 0
  /\ \E n \in Nodes : fx[n] = Null /\ ~Held(n)
  /\ alphaTarget = AlphaHot /\ running

(* --------------------------------- Spec -------------------------------- *)
(* The component's life: mount, the two resource requests, the build of    *)
(* the visualization, simulation ticks, hover, unmount.  One record per    *)
(* component instance; instances are mounted one after another.            *)

Inst == 1..MaxMounts
Outcomes == {"ok", "neterr", "http404"}
    \* "neterr": the request rejects; "http404": the request resolves with
    \* an error status and an empty body

Unborn == [life |-> "unborn", pc |-> "idle",
           nodeReq |-> "idle", edgeReq |-> "idle",
           svgRef |-> FALSE, data |-> FALSE, loading |-> TRUE,
           built |-> "none", logged |-> FALSE, crashed |-> FALSE,
           sim |-> "none", simAlpha |-> 0, tooltip |-> "absent"]

Outcome(r) == IF r = "nodeReq" THEN nodeOutcome ELSE edgeOutcome
Other(r) == IF r = "nodeReq" THEN "edgeReq" ELSE "nodeReq"

\* the rows the parsers hand to the build: an empty body parses to no rows
Parsed ==
  [ids |-> IF nodeOutcome = "ok" THEN Datasets[dataset].ids ELSE << >>,
   between |-> IF nodeOutcome = "ok" THEN Datasets[dataset].between
               ELSE << >>,
   edges |-> IF edgeOutcome = "ok" THEN Datasets[dataset].edges ELSE << >>]

\* the build reaches forceLink initialization and find() throws
BuildThrows(c) == c.svgRef /\ ~LinksResolve(Parsed)

\* the build up to the throw: svg cleared and refilled, simulation created
\* and its timer started, no tooltip, no tick listener
BuildUntilThrow(c) ==
  [c EXCEPT !.built = "partial", !.sim = "running", !.simAlpha = AlphaInit]

\* createVisualization / the [data] effect body, run to its end
CreateVisualization(c) ==
  IF ~c.svgRef THEN c
  ELSE [c EXCEPT !.built = "full", !.sim = "running",
                 !.simAlpha = AlphaInit, !.tooltip = "hidden"]

\* render pass that commits setData
RenderData(c) == [c EXCEPT !.data = TRUE]

\* render pass that commits setLoading(false): the svg element is rendered
\* and the ref attached
RenderLoaded(c) == [c EXCEPT !.loading = FALSE, !.svgRef = TRUE]

\* the [data] effect: its guard, then the build; an error thrown by an
\* effect unmounts the tree
DataEffect(c) ==
  IF ~c.data \/ ~c.svgRef THEN c
  ELSE IF BuildThrows(c)
    THEN [BuildUntilThrow(c) EXCEPT !.crashed = TRUE,
                                    !.life = "unmounted",
                                    !.svgRef = FALSE]
  ELSE CreateVisualization(c)

\* loadData after its last await: parse, then build or set state.  The two
\* state updates are committed by one render pass, or by one pass each with
\* the [data] effect of the first pass run before the second; the effect
\* runs once, after the pass in which data changed.
LoadDataEnd(c) ==
  IF variant = "fetch"
    THEN IF BuildThrows(c)
           THEN [BuildUntilThrow(c) EXCEPT !.pc = "failed", !.logged = TRUE]
           ELSE [CreateVisualization(c) EXCEPT !.pc = "done"]
  ELSE IF c.life # "mounted"
    THEN [c EXCEPT !.pc = "done"]
  ELSE LET r == [c EXCEPT !.pc = "done"]
       IN IF batched
            THEN DataEffect(RenderLoaded(RenderData(r)))
            ELSE RenderLoaded(DataEffect(RenderData(r)))

\* loadData's catch block
LoadDataCatch(c) == [c EXCEPT !.pc = "failed", !.logged = TRUE]

Init ==
  /\ variant \in Variants
  /\ dataset \in 1..Len(Datasets)
  /\ nodeOutcome \in Outcomes
  /\ edgeOutcome \in Outcomes
  /\ variant = "fsState" => (nodeOutcome # "http404" /\ edgeOutcome # "http404")
  /\ comp = [i \in Inst |-> Unborn]
  /\ batched \in BOOLEAN
  /\ IdleMore
  /\ column = << >> /\ weights = << >> /\ scalesMade = FALSE
  /\ radius = << >> /\ strokeWidth = << >> /\ markerEnd = << >>
  /\ ids = << >> /\ links = << >>
  /\ x = << >> /\ y = << >> /\ fx = << >> /\ fy = << >>
  /\ gesture = << >> /\ path = << >>
  /\ alpha = 0 /\ alphaTarget = 0 /\ running = FALSE

\* first render and the mount effect: loadData runs to its first await
Mount(i) ==
  /\ comp[i].life = "unborn"
  /\ \A j \in Inst : comp[j].life # "mounted"
  /\ \A j \in Inst : j < i => comp[j].life # "unborn"
  /\ comp' = [comp EXCEPT ![i] =
       [@ EXCEPT !.life = "mounted", !.pc = "await1",
                 !.svgRef = (variant = "fetch"),
                 !.nodeReq = "pending",
                 !.edgeReq = IF variant = "fsState" THEN "idle" ELSE "pending"]]
  /\ UNCHANGED <<variant, dataset, nodeOutcome, edgeOutcome, batched>>
  /\ UNCHANGED varsScale
  /\ UNCHANGED varsLayout
  /\ UNCHANGED varsMore

\* a fetch() promise settles; Promise.all of the two fetches
FetchSettles(i, r) ==
  /\ variant # "fsState"
  /\ comp[i][r] = "pending"
  /\ LET c == comp[i] IN
     comp' = [comp EXCEPT ![i] =
       IF Outcome(r) = "neterr"
         THEN LET c1 == [c EXCEPT ![r] = "rejected"]
              IN IF c.pc = "await1" THEN LoadDataCatch(c1) ELSE c1
       ELSE IF c.pc = "await1" /\ c[Other(r)] = "response"
         THEN [c EXCEPT !.nodeReq = "reading", !.edgeReq = "reading",
                        !.pc = "await2"]
       ELSE [c EXCEPT ![r] = "response"]]
  /\ UNCHANGED <<variant, dataset, nodeOutcome, edgeOutcome, batched>>
  /\ UNCHANGED varsScale
  /\ UNCHANGED varsLayout
  /\ UNCHANGED varsMore

\* a response.text() promise settles; Promise.all of the two bodies
TextSettles(i, r) ==
  /\ variant # "fsState"
  /\ comp[i][r] = "reading"
  /\ LET c == [comp[i] EXCEPT ![r] = "text"] IN
     comp' = [comp EXCEPT ![i] =
       IF c[Other(r)] = "text" THEN LoadDataEnd(c) ELSE c]
  /\ UNCHANGED <<variant, dataset, nodeOutcome, edgeOutcome, batched>>
  /\ UNCHANGED varsScale
  /\ UNCHANGED varsLayout
  /\ UNCHANGED varsMore

\* a window.fs.readFile promise settles; the two reads are awaited in turn
ReadFileSettles(i, r) ==
  /\ variant = "fsState"
  /\ comp[i][r] = "pending"
  /\ LET c == comp[i] IN
     comp' = [comp EXCEPT ![i] =
       IF Outcome(r) = "neterr"
         THEN LoadDataCatch([c EXCEPT ![r] = "rejected"])
       ELSE IF r = "nodeReq"
         THEN [c EXCEPT !.nodeReq = "text", !.edgeReq = "pending",
                        !.pc = "await2"]
       ELSE LoadDataEnd([c EXCEPT !.edgeReq = "text"])]
  /\ UNCHANGED <<variant, dataset, nodeOutcome, edgeOutcome, batched>>
  /\ UNCHANGED varsScale
  /\ UNCHANGED varsLayout
  /\ UNCHANGED varsMore

\* one step of an instance's simulation timer
SimTick(i) ==
  /\ comp[i].sim = "running"
  /\ comp' = [comp EXCEPT ![i] =
       [@ EXCEPT !.simAlpha = @ - 1,
                 !.sim = IF comp[i].simAlpha - 1 >= 1 THEN "running"
                         ELSE "stopped"]]
  /\ UNCHANGED <<variant, dataset, nodeOutcome, edgeOutcome, batched>>
  /\ UNCHANGED varsScale
  /\ UNCHANGED varsLayout
  /\ UNCHANGED varsMore

\* the pointer enters a node of a built, mounted visualization
Mouseover(i) ==
  /\ comp[i].life = "mounted"
  /\ comp[i].built = "full"
  /\ Parsed.ids # << >>
  /\ comp' = [comp EXCEPT ![i].tooltip = "shown"]
  /\ UNCHANGED <<variant, dataset, nodeOutcome, edgeOutcome, batched>>
  /\ UNCHANGED varsScale
  /\ UNCHANGED varsLayout
  /\ UNCHANGED varsMore

\* the pointer leaves a node it had entered
Mouseout(i) ==
  /\ comp[i].life = "mounted"
  /\ comp[i].tooltip = "shown"
  /\ comp' = [comp EXCEPT ![i].tooltip = "hidden"]
  /\ UNCHANGED <<variant, dataset, nodeOutcome, edgeOutcome, batched>>
  /\ UNCHANGED varsScale
  /\ UNCHANGED varsLayout
  /\ UNCHANGED varsMore

\* React removes the instance; neither effect returns a cleanup function
Unmount(i) ==
  /\ comp[i].life = "mounted"
  /\ comp' = [comp EXCEPT ![i] =
       [@ EXCEPT !.life = "unmounted", !.svgRef = FALSE]]
  /\ UNCHANGED <<variant, dataset, nodeOutcome, edgeOutcome, batched>>
  /\ UNCHANGED varsScale
  /\ UNCHANGED varsLayout
  /\ UNCHANGED varsMore

Next ==
  \/ \E i \in Inst : Mount(i)
  \/ \E i \in Inst, r \in {"nodeReq", "edgeReq"} : FetchSettles(i, r)
  \/ \E i \in Inst, r \in {"nodeReq", "edgeReq"} : TextSettles(i, r)
  \/ \E i \in Inst, r \in {"nodeReq", "edgeReq"} : ReadFileSettles(i, r)
  \/ \E i \in Inst : SimTick(i)
  \/ \E i \in Inst : Mouseover(i)
  \/ \E i \in Inst : Mouseout(i)
  \/ \E i \in Inst : Unmount(i)

Spec == Init /\ [][Next]_vars

(* ---------------------------- claims: life ----------------------------- *)
\* C2: when the node resource or the edge resource cannot be fetched or
\* parsed, the failure is logged and the build never runs: no svg content,
\* simulation or tooltip is ever created and the UI stays in its loading
\* state.
C2_FailedLoadNeverBuilds ==
  (nodeOutcome # "ok" \/ edgeOutcome # "ok") =>
    \A i \in Inst :
      /\ comp[i].built = "none"
      /\ comp[i].sim = "none"
      /\ comp[i].tooltip = "absent"
      /\ comp[i].loading
      /\ comp[i].pc \in {"done", "failed"} => comp[i].logged

\* C3: given an edge whose source or target id is absent from the node set,
\* the build and the later ticks never end in an uncaught exception, and the
\* edge is either dropped (the build completes without it) or an error is
\* reported.
C3_UnresolvedEdgeNeverCrashes ==
  ~LinksResolve(Parsed) =>
    \A i \in Inst :
      /\ ~comp[i].crashed
      /\ comp[i].built # "none" => (comp[i].built = "full" \/ comp[i].logged)

\* C4: at every moment, across any sequence of mounts, builds and hover
\* events, at most one tooltip element exists in the document.
C4_AtMostOneTooltip ==
  Cardinality({i \in Inst : comp[i].tooltip # "absent"}) <= 1

\* C5: after a component instance unmounts, the tooltip element it created
\* is no longer in the document and no tick of its simulation runs the tick
\* callback.
C5_UnmountStopsTicksAndTooltip ==
  /\ [](\A i \in Inst :
          comp[i].life = "unmounted" => comp[i].tooltip = "absent")
  /\ [][\A i \in Inst :
          (comp[i].life = "unmounted" /\ comp[i].built = "full") =>
            comp'[i].simAlpha = comp[i].simAlpha]_vars

\* C6: the node request and the edge request are both issued before either
\* one completes, and the build starts only after both have completed.
C6_BothIssuedBeforeEitherCompletes ==
  /\ [][\A i \in Inst : \A r \in {"nodeReq", "edgeReq"} :
          (comp[i][r] = "pending" /\ comp'[i][r] # "pending") =>
            comp[i][Other(r)] # "idle"]_vars
  /\ [](\A i \in Inst :
          comp[i].built # "none" =>
            (comp[i].nodeReq = "text" /\ comp[i].edgeReq = "text"))

\* C16: in the state-driven variants, once both files have loaded well and
\* loadData has finished, the build has run with the svg element mounted,
\* whether setData and setLoading(false) were rendered in one pass or in
\* two (the [data] effect does not run again afterwards, so a build that has
\* not happened by then never happens); and no build runs with data null.
C16_StateVariantBuildsAfterLoad ==
  \A i \in Inst :
    LET c == comp[i] IN
    /\ (/\ variant # "fetch"
        /\ c.life = "mounted" /\ c.pc = "done"
        /\ nodeOutcome = "ok" /\ edgeOutcome = "ok"
        /\ LinksResolve(Parsed))
         => c.built = "full"
    /\ (variant # "fetch" /\ c.built # "none") => c.data

(* ------------------------------- SpecZoom ------------------------------ *)
(* The zoom behaviour attached to the svg.  Scale factors are counted in   *)
(* twentieths: 20 is scale 1.  A wheel or pinch gesture may ask for any    *)
(* positive scale; the translation it produces is abstracted to the grid.  *)

ZoomUnit == 20          \* scale 1
ScaleExtentMin == 2     \* scaleExtent lower bound 0.1
ScaleExtentMax == 80    \* scaleExtent upper bound 4

NoTransform == [kind |-> "none"]
Transform(k, tx, ty) == [kind |-> "matrix", k |-> k, x |-> tx, y |-> ty]

\* a zoom behaviour left at d3's default scaleExtent [0, Infinity]
ClampScaleUnbounded(k) == k

\* d3-zoom scale(): k clamped to .scaleExtent([0.1, 4])
ClampScale(k) ==
  IF k < ScaleExtentMin THEN ScaleExtentMin
  ELSE IF k > ScaleExtentMax THEN ScaleExtentMax ELSE k

\* the 'zoom' listener: container.attr('transform', event.transform)
ZoomTo(k, tx, ty, req) ==
  /\ zoomT' = Transform(k, tx, ty)
  /\ containerT' = Transform(k, tx, ty)
  /\ zoomReq' = req
  /\ UNCHANGED <<variant, varsScale, varsLayout, varsLife, varsFlag, varsCsv,
                 varsResolve>>

InitZoom ==
  /\ variant \in Variants
  /\ zoomT = Transform(ZoomUnit, 0, 0)
  /\ containerT = NoTransform
  /\ zoomReq = ZoomUnit
  /\ dataset = 0
  /\ IdleScale /\ IdleLayout /\ IdleLife /\ IdleFlag /\ IdleCsv
  /\ IdleResolve

\* wheel: no event when the clamped scale equals the current one
Wheeled(req, tx, ty) ==
  /\ ClampScale(req) # zoomT.k
  /\ ZoomTo(ClampScale(req), tx, ty, req)

\* two-finger pinch
Pinched(req, tx, ty) == ZoomTo(ClampScale(req), tx, ty, req)

\* double click doubles the scale, shift + double click halves it
Dblclicked(shift, tx, ty) ==
  LET req == IF shift THEN zoomT.k \div 2 ELSE zoomT.k * 2
  IN ZoomTo(ClampScale(req), tx, ty, req)

\* drag on the background: translation only
Panned(tx, ty) == ZoomTo(zoomT.k, tx, ty, zoomT.k)

NextZoom ==
  \/ \E req \in 1..MaxZoomReq, tx \in 0..MaxCoord, ty \in 0..MaxCoord :
       Wheeled(req, tx, ty)
  \/ \E req \in 1..MaxZoomReq, tx \in 0..MaxCoord, ty \in 0..MaxCoord :
       Pinched(req, tx, ty)
  \/ \E shift \in BOOLEAN, tx \in 0..MaxCoord, ty \in 0..MaxCoord :
       Dblclicked(shift, tx, ty)
  \/ \E tx \in 0..MaxCoord, ty \in 0..MaxCoord : Panned(tx, ty)

SpecZoom == InitZoom /\ [][NextZoom]_vars

\* C11: the zoom scale factor of the scene transform lies in [0.1, 4] in
\* every reachable state, for any sequence of wheel, pinch, double-click and
\* pan gestures, whatever scale they ask for.
C11_ZoomScaleClamped ==
  /\ ScaleExtentMin <= zoomT.k /\ zoomT.k <= ScaleExtentMax
  /\ containerT.kind # "none" =>
       (ScaleExtentMin <= containerT.k /\ containerT.k <= ScaleExtentMax)

\* C11 witness: a gesture asked for a scale above 4 and the container is
\* drawn at scale 4.
C11_Witness ==
  /\ zoomReq > ScaleExtentMax
  /\ containerT.kind = "matrix" /\ containerT.k = ScaleExtentMax

(* ------------------------------- SpecFlag ------------------------------ *)
(* The country-to-flag-code lookup and the flag href of each node.         *)

\* countryMap, an object literal: its own properties
CountryMap == <<
  <<"USA", "US">>, <<"United States", "US">>, <<"United Kingdom", "GB">>,
  <<"Germany", "DE">>, <<"France", "FR">>, <<"Spain", "ES">>,
  <<"Italy", "IT">>, <<"Netherlands", "NL">>, <<"Belgium", "BE">>,
  <<"Switzerland", "CH">>, <<"Austria", "AT">>, <<"Canada", "CA">>,
  <<"Australia", "AU">>, <<"India", "IN">>, <<"Unknown", "UN">> >>

OwnKeys == {CountryMap[i][1] : i \in 1..Len(CountryMap)}

\* properties an object literal inherits from Object.prototype
InheritedFunctions == {"constructor", "toString"}
InheritedObjects == {"__proto__"}

\* a cell without a value (null after parsing); as a property key it is
\* the string "null"
MissingCountry == "null"

CountryInputs ==
  OwnKeys \cup InheritedFunctions \cup InheritedObjects
    \cup {"Tuvalu", "", MissingCountry}

Str(v) == [type |-> "string", val |-> v]

\* countryMap[country] || 'UN'
GetCountryCode(country) ==
  IF country \in OwnKeys
    THEN Str(CountryMap[CHOOSE i \in 1..Len(CountryMap) :
                          CountryMap[i][1] = country][2])
  ELSE IF country \in InheritedFunctions THEN [type |-> "function"]
  ELSE IF country \in InheritedObjects THEN [type |-> "object"]
  ELSE Str("UN")

\* String.prototype.toLowerCase on the two-letter codes
LowerCodes == <<
  <<"US", "us">>, <<"GB", "gb">>, <<"DE", "de">>, <<"FR", "fr">>,
  <<"ES", "es">>, <<"IT", "it">>, <<"NL", "nl">>, <<"BE", "be">>,
  <<"CH", "ch">>, <<"AT", "at">>, <<"CA", "ca">>, <<"AU", "au">>,
  <<"IN", "in">>, <<"UN", "un">> >>

ToLowerCase(code) ==
  LowerCodes[CHOOSE i \in 1..Len(LowerCodes) : LowerCodes[i][1] = code][2]

\* the href accessor: alias, lookup, .toLowerCase(); calling toLowerCase on
\* a value that is not a string throws a TypeError
FlagCode(country) ==
  LET aliased == IF country = "United States" THEN "USA" ELSE country
      code == GetCountryCode(aliased)
  IN IF code.type = "string" THEN ToLowerCase(code.val) ELSE "TypeError"

InitFlag ==
  /\ variant \in Variants
  /\ countries \in SeqsUpTo(CountryInputs, MaxLen)
  /\ href = << >>
  /\ dataset = 0
  /\ IdleScale /\ IdleLayout /\ IdleLife /\ IdleZoom /\ IdleCsv
  /\ IdleResolve

\* node.append('image').attr('href', ...)
DrawFlags ==
  /\ href = << >>
  /\ countries # << >>
  /\ href' = [i \in 1..Len(countries) |-> FlagCode(countries[i])]
  /\ UNCHANGED <<variant, countries, varsScale, varsLayout, varsLife,
                 varsZoom, varsCsv, varsResolve>>

NextFlag == DrawFlags

SpecFlag == InitFlag /\ [][NextFlag]_vars

\* C12: the country-to-flag-code lookup is total: every country that is not
\* a key of the static table yields the unknown code 'UN' (drawn as "un"),
\* "United States" yields 'US', and the lookup never throws or returns a
\* value that is not a string.
C12_LookupTotal ==
  href # << >> =>
    \A i \in 1..Len(countries) :
      /\ href[i] # "TypeError"
      /\ countries[i] \notin OwnKeys => href[i] = "un"
      /\ countries[i] = "United States" => href[i] = "us"

(* ------------------------------- SpecCsv ------------------------------- *)
(* The hand-written parseCSV of the fetch-and-state variant, applied to a  *)
(* file "h1,h2\n" followed by a short body.  A string is a sequence of     *)
(* characters.                                                             *)

Chars == {"1", "a", " ", "CR", ",", "LF"}
Whitespace == {" ", "CR", "LF"}
Headers == <<"h1", "h2">>

\* String.prototype.split on a one-character separator
RECURSIVE Split(_, _)
Split(str, sep) ==
  IF \A i \in 1..Len(str) : str[i] # sep THEN <<str>>
  ELSE LET k == CHOOSE i \in 1..Len(str) :
                  str[i] = sep /\ \A j \in 1..(i - 1) : str[j] # sep
       IN <<SubSeq(str, 1, k - 1)>> \o Split(SubSeq(str, k + 1, Len(str)), sep)

\* String.prototype.trim
RECURSIVE Trim(_)
Trim(str) ==
  IF str = << >> THEN str
  ELSE IF str[1] \in Whitespace THEN Trim(Tail(str))
  ELSE IF str[Len(str)] \in Whitespace THEN Trim(SubSeq(str, 1, Len(str) - 1))
  ELSE str

RECURSIVE DigitsValue(_)
DigitsValue(str) ==
  IF str = << >> THEN 0
  ELSE 10 * DigitsValue(SubSeq(str, 1, Len(str) - 1)) + 1

NullCell == [t |-> "null"]
NumCell(n) == [t |-> "num", v |-> n]
TextCell(str) == [t |-> "text", v |-> str]
NaNCell == [t |-> "nan"]

\* Number(string): surrounding whitespace is ignored, the empty string is 0
ToNumber(str) ==
  LET body == Trim(str) IN
  IF \A i \in 1..Len(body) : body[i] = "1" THEN NumCell(DigitsValue(body))
  ELSE NaNCell

\* values[i] ? isNaN(Number(values[i])) ? values[i].trim() : Number(values[i])
\*           : null
DecodeCell(values, i) ==
  IF i > Len(values) \/ values[i] = << >> THEN NullCell
  ELSE IF ToNumber(values[i]) = NaNCell THEN TextCell(Trim(values[i]))
  ELSE ToNumber(values[i])

\* headers.reduce(...) for one line
DecodeLine(line) ==
  LET values == Split(line, ",")
  IN [i \in 1..Len(Headers) |-> DecodeCell(values, i)]

RECURSIVE KeepRows(_)
\* .filter(row => Object.values(row).some(val => val !== null))
KeepRows(rows) ==
  IF rows = << >> THEN << >>
  ELSE IF \E i \in 1..Len(Headers) : rows[1][i] # NullCell
    THEN <<rows[1]>> \o KeepRows(Tail(rows))
  ELSE KeepRows(Tail(rows))

\* parseCSV of the file "h1,h2\n" \o body
ParseCSV(body) ==
  LET lines == Split(body, "LF")
  IN KeepRows([k \in 1..Len(lines) |-> DecodeLine(lines[k])])

InitCsv ==
  /\ variant = "fetchState"
  /\ csvText \in SeqsUpTo(Chars, MaxCsvLen)
  /\ records = [done |-> FALSE, rows |-> << >>]
  /\ dataset = 0
  /\ IdleScale /\ IdleLayout /\ IdleLife /\ IdleZoom /\ IdleFlag
  /\ IdleResolve

RunParseCSV ==
  /\ ~records.done
  /\ records' = [done |-> TRUE, rows |-> ParseCSV(csvText)]
  /\ UNCHANGED <<variant, csvText, varsScale, varsLayout, varsLife,
                 varsZoom, varsFlag, varsResolve>>

NextCsv == RunParseCSV

SpecCsv == InitCsv /\ [][NextCsv]_vars

(* ----------------------------- claims: csv ----------------------------- *)
\* what the claim expects of one cell
ExpectedCell(values, i) ==
  IF i > Len(values) \/ values[i] = << >> THEN NullCell
  ELSE LET body == Trim(values[i]) IN
    IF body # << >> /\ \A j \in 1..Len(body) : body[j] = "1"
      THEN NumCell(DigitsValue(body))
    ELSE TextCell(body)

\* a blank row: nothing but whitespace, carriage returns and separators
BlankLine(line) == \A i \in 1..Len(line) : line[i] \in Whitespace \cup {","}

RECURSIVE ExpectedRows(_)
ExpectedRows(lines) ==
  IF lines = << >> THEN << >>
  ELSE IF BlankLine(lines[1]) THEN ExpectedRows(Tail(lines))
  ELSE <<[i \in 1..Len(Headers) |->
            ExpectedCell(Split(lines[1], ","), i)]>>
         \o ExpectedRows(Tail(lines))

\* C13: parseCSV decodes every non-empty cell as a number when it parses
\* cleanly as one and otherwise as its trimmed text, and drops every blank
\* row, so the records are exactly the decoded non-blank data rows.
C13_CellsDecodedBlankRowsDropped ==
  records.done => records.rows = ExpectedRows(Split(csvText, "LF"))

(* ----------------------------- SpecResolve ----------------------------- *)
(* forceLink's initialization over arbitrary small node and edge tables:   *)
(* every endpoint id is replaced by a node.  A resolved link is a pair of  *)
(* row numbers; 0 stands for an endpoint that still is an id.              *)

IdNames == {"a", "b"}

\* link.js initialize(): links are resolved in order, source before target,
\* and find() throws at the first id no row carries
RECURSIVE ForceLinkInitialize(_, _, _)
ForceLinkInitialize(idseq, raw, k) ==
  IF k > Len(raw) THEN << >>
  ELSE LET r == ResolveLinks([ids |-> idseq, edges |-> raw])[k] IN
    IF r[1] = 0
      THEN [j \in 1..(Len(raw) - k + 1) |-> <<0, 0>>]
    ELSE IF r[2] = 0
      THEN <<r>> \o [j \in 1..(Len(raw) - k) |-> <<0, 0>>]
    ELSE <<r>> \o ForceLinkInitialize(idseq, raw, k + 1)

InitResolve ==
  /\ variant \in Variants
  /\ ids \in SeqsUpTo(IdNames, MaxRows)
  /\ rawLinks \in SeqsUpTo({Edge(s, t, 1) : s \in IdNames, t \in IdNames},
                           MaxEdges)
  /\ links = << >>
  /\ x = << >> /\ y = << >> /\ fx = << >> /\ fy = << >>
  /\ gesture = << >> /\ path = << >>
  /\ alpha = 0 /\ alphaTarget = 0 /\ running = FALSE
  /\ dataset = 0
  /\ IdleScale /\ IdleLife /\ IdleZoom /\ IdleFlag /\ IdleCsv

\* forceSimulation(nodes).force('link', forceLink(links).id(...))
InitializeLinks ==
  /\ alpha = 0
  /\ alpha' = AlphaInit
  /\ running' = TRUE
  /\ links' = ForceLinkInitialize(ids, rawLinks, 1)
  /\ UNCHANGED <<variant, ids, x, y, fx, fy, gesture, alphaTarget, path>>
  /\ UNCHANGED <<varsScale, varsLife, varsZoom, varsFlag, varsCsv,
                 varsResolve>>

NextResolve == InitializeLinks

SpecResolve == InitResolve /\ [][NextResolve]_vars

(* --------------------------- claims: resolve --------------------------- *)
\* the id an endpoint of the k-th edge row names (e = 1 source, 2 target)
Named(k, e) == IF e = 1 THEN rawLinks[k].source ELSE rawLinks[k].target

\* C14: when two rows of one node table carry the same id, every edge
\* endpoint naming that id resolves to the same node, the last row carrying
\* the id: the resolved node is a function of the tables alone, the same for
\* every edge and every run over the same data.
C14_DuplicateIdResolvesToLastRow ==
  \A k1, k2 \in 1..Len(links), e1, e2 \in 1..2 :
    links[k1][e1] # 0 =>
      /\ ids[links[k1][e1]] = Named(k1, e1)
      /\ \A j \in 1..Len(ids) : ids[j] = Named(k1, e1) => j <= links[k1][e1]
      /\ (links[k2][e2] # 0 /\ Named(k1, e1) = Named(k2, e2))
           => links[k1][e1] = links[k2][e2]

\* C14 witness: two rows carry one id, a third row another; two different
\* edges name the duplicated id and both are resolved to its later row.
C14_Witness ==
  \E k1, k2 \in 1..Len(links), e1, e2 \in 1..2, j \in 1..Len(ids) :
    /\ k1 # k2
    /\ links[k1][e1] # 0 /\ links[k2][e2] # 0
    /\ Named(k1, e1) = Named(k2, e2)
    /\ ids[j] = Named(k1, e1) /\ j < links[k1][e1]
    /\ links[k1][e1] = links[k2][e2]
    /\ \E i \in 1..Len(ids) : ids[i] # Named(k1, e1)

====
